---------------------------- MODULE Spec2Model ----------------------------
(***************************************************************************)
(* A model of student_affect_monitor.py: the webcam thread                 *)
(* (detect_emotion), the keyboard and mouse listener callbacks (on_press,  *)
(* on_release, on_scroll) and the periodic reducer (analyze_emotions),     *)
(* which share the module globals emotion_window, typing_metrics,          *)
(* scroll_events, eye_closed_counter and key_press_times without locks.    *)
(*                                                                         *)
(* Units.  EAR values and key hold times are in hundredths (0.23 -> 23,    *)
(* 0.5 s -> 50); the camera clock is in whole seconds.                     *)
(***************************************************************************)
EXTENDS Integers, Sequences, FiniteSets, TLC

(***************************************************************************)
(* Tunables, student_affect_monitor.py lines 19-23.                        *)
(***************************************************************************)
EMOTION_SAMPLE_INTERVAL == 1
ALERT_THRESHOLD == 5
EAR_THRESH == 23
EAR_CONSEC_FRAMES == 15

(***************************************************************************)
(* Bounds of the model.                                                    *)
(***************************************************************************)
\* eye_closed_counter is not incremented beyond this value
MaxClosed == 16
\* emotion_window holds at most this many entries
MaxWindow == 10
\* emotion_window holds at most this many runs of equal adjacent labels
MaxRuns == 2

(***************************************************************************)
(* Labels.                                                                 *)
(***************************************************************************)
RawKnown == {"angry", "fear", "disgust", "surprise", "sad", "happy", "neutral"}

\* "unknown" stands for every classifier label outside RAW_TO_HIGH
RawInputs == RawKnown \cup {"unknown"}

RAW_TO_HIGH ==
  [r \in RawKnown |->
     CASE r = "angry"    -> "tension/frustration"
       [] r = "fear"     -> "tension/frustration"
       [] r = "disgust"  -> "confusion"
       [] r = "surprise" -> "confusion"
       [] r = "sad"      -> "boredom"
       [] r = "happy"    -> "engagement/focus"
       [] r = "neutral"  -> "engagement/focus"]

NEGATIVE_EMOTIONS == {"tired", "tension/frustration", "confusion", "boredom"}

AffectLabels == NEGATIVE_EMOTIONS \cup {"engagement/focus"}

\* harmonise with the lookup of the raw label taking precedence over tired_flag
harmoniseRawFirst(raw_face, tired_flag) ==
  IF raw_face \in DOMAIN RAW_TO_HIGH THEN RAW_TO_HIGH[raw_face]
  ELSE IF tired_flag THEN "tired"
  ELSE "engagement/focus"

\* lines 51-52
harmonise(raw_face, tired_flag) ==
  IF tired_flag THEN "tired"
  ELSE IF raw_face \in DOMAIN RAW_TO_HIGH THEN RAW_TO_HIGH[raw_face]
  ELSE "engagement/focus"

(***************************************************************************)
(* Sequence helpers.                                                       *)
(***************************************************************************)
RECURSIVE Count(_, _)
Count(x, s) ==
  IF s = <<>> THEN 0
  ELSE (IF Head(s) = x THEN 1 ELSE 0) + Count(x, Tail(s))

RECURSIVE Without(_, _)
Without(s, x) ==
  IF s = <<>> THEN <<>>
  ELSE IF Head(s) = x THEN Without(Tail(s), x)
  ELSE <<Head(s)>> \o Without(Tail(s), x)

RECURSIVE Runs(_)
Runs(s) ==
  IF Len(s) <= 1 THEN Len(s)
  ELSE (IF s[1] = s[2] THEN 0 ELSE 1) + Runs(Tail(s))

Range(s) == {s[i] : i \in DOMAIN s}

(***************************************************************************)
(* Frame inputs of detect_emotion.  A detected face is the pair of EAR     *)
(* values ear(l_eye), ear(r_eye) of its two eye contours; faces is the     *)
(* detector's result for the frame, in detection order.                    *)
(***************************************************************************)
EarReadings == {22, 23}

EyePairs == [l : EarReadings, r : EarReadings]

ClosedFace == [l |-> 22, r |-> 22]

OpenFace == [l |-> 23, r |-> 23]

FaceInputs ==
  {<<>>} \cup {<<f>> : f \in EyePairs}
         \cup {<<ClosedFace, OpenFace>>, <<OpenFace, ClosedFace>>}

\* seconds elapsed between two frames, as time.time() reports them
TimeSteps == {0, 1}

\* the classifier's outcome when DeepFace.analyze raises (line 120)
ClassifierError == "exception"

ClassifierOutcomes == RawInputs \cup {ClassifierError}

(***************************************************************************)
(* Keyboard inputs.  key_press_times[k] is kept as the time elapsed since  *)
(* the press was recorded (time.time() minus the stored press time), which *)
(* Tick advances; rel - prs at a release is that elapsed time.             *)
(***************************************************************************)
Keys == {"a", "Key.esc"}

\* amounts of time, in hundredths of a second, that pass in one Tick
HoldSteps == {10, 50}

\* no key is held longer than this (hundredths of a second)
MaxHold == 60
\* typing_metrics holds at most this many entries
MaxTyping == 2
\* scroll_events is not incremented beyond this value
MaxScroll == 17

\* thresholds of lines 152, 154 and 155
SLOW_HOLD == 50
FAST_HOLD == 15
SCROLL_RESTLESS == 10
SCROLL_BORED == 15

VARIABLES
  running,             \* FALSE once the keyboard listener stopped (Esc): the
                       \* main thread returns and the daemon threads die
  cam,                 \* webcam thread: "start", "on" (in the loop), "off"
  eye_closed_counter,  \* global, line 27
  tired_now,           \* detect_emotion local, line 97
  faces,               \* detect_emotion local, line 100: the last frame's faces
  sinceInf,            \* now - last_inf, capped at EMOTION_SAMPLE_INTERVAL
  analyzeRaised,       \* history: DeepFace.analyze raised on the last frame
  emotion_window,      \* global, line 26
  typing_metrics,      \* global, line 26
  scroll_events,       \* global, line 27
  key_press_times,     \* global, line 28
  scrollPc,            \* on_scroll: "idle", or "loaded" inside scroll_events += 1
  scrollTmp,           \* on_scroll: the value of scroll_events it loaded
  redPc,               \* analyze_emotions: the statement it executes next
  counts,              \* analyze_emotions local, line 144
  todo,                \* the keys of counts the for loop has yet to visit
  emo,                 \* the for loop's variable, line 145
  newList,             \* the list built by the comprehension of line 148
  alerts,              \* the show_popup threads started in this cycle, line 147
  popups,              \* popups[i]: where the thread alerts[i] stands
  face_mode,           \* analyze_emotions local, line 149
  typing_state,        \* analyze_emotions local, lines 150-153
  scroll_state,        \* analyze_emotions local, line 154
  cycleWindow,         \* history: emotion_window as line 144 counted it
  scrollUsed,          \* history: scroll_events as line 154 read it
  typingUsed,          \* history: typing_metrics as lines 150-151 read it
  lost,                \* history: the labels of which, in this cycle, an entry
                       \* was discarded by a rebinding of line 148 made for
                       \* another label
  api,                 \* api.py: "start", "up" (app serving) or "failed"
  apiLog               \* history: the requests posted to /affect and their status

camVars == <<cam, eye_closed_counter, tired_now, faces, sinceInf, analyzeRaised>>

keyVars == <<typing_metrics, key_press_times>>

scrollVars == <<scroll_events, scrollPc, scrollTmp>>

redVars == <<redPc, counts, todo, emo, newList, alerts, popups, face_mode,
             typing_state, scroll_state, cycleWindow, scrollUsed, typingUsed>>

apiVars == <<api, apiLog>>

vars == <<running, camVars, emotion_window, lost, keyVars, scrollVars, redVars,
          apiVars>>

Unset == "unset"

NoCounts == [l \in NEGATIVE_EMOTIONS |-> 0]

Init ==
  /\ running = TRUE
  /\ cam = "start"
  /\ eye_closed_counter = 0
  /\ tired_now = FALSE
  /\ faces = <<>>
  /\ sinceInf = EMOTION_SAMPLE_INTERVAL     \* last_inf = 0.0, now = time.time()
  /\ analyzeRaised = FALSE
  /\ emotion_window = <<>>
  /\ typing_metrics = <<>>
  /\ scroll_events = 0
  /\ key_press_times = [k \in {} |-> 0]
  /\ scrollPc = "idle"
  /\ scrollTmp = 0
  /\ redPc = "sleep"
  /\ counts = NoCounts
  /\ todo = <<>>
  /\ emo = Unset
  /\ newList = <<>>
  /\ alerts = <<>>
  /\ popups = <<>>
  /\ face_mode = Unset
  /\ typing_state = Unset
  /\ scroll_state = Unset
  /\ cycleWindow = <<>>
  /\ scrollUsed = 0
  /\ typingUsed = <<>>
  /\ lost = {}
  /\ api = "start"
  /\ apiLog = <<>>

(***************************************************************************)
(* detect_emotion, lines 87-130.                                           *)
(***************************************************************************)
BothEyesClosed(face) == face.l < EAR_THRESH /\ face.r < EAR_THRESH

\* AfterFaces with the threshold test of line 110 made strict
AfterFacesStrict(fs, counter) ==
  IF fs = <<>> THEN [counter |-> counter, tired |-> FALSE]
  ELSE IF BothEyesClosed(fs[1]) THEN [counter |-> counter + 1, tired |-> FALSE]
  ELSE [counter |-> 0, tired |-> counter > EAR_CONSEC_FRAMES]

\* AfterFaces with the counter reset when no face is detected
AfterFacesNoFaceReset(fs, counter) ==
  IF fs = <<>> THEN [counter |-> 0, tired |-> FALSE]
  ELSE IF BothEyesClosed(fs[1]) THEN [counter |-> counter + 1, tired |-> FALSE]
  ELSE [counter |-> 0, tired |-> counter >= EAR_CONSEC_FRAMES]

\* AfterFaces with tired_now also set on a closed frame that brings the
\* counter to EAR_CONSEC_FRAMES
AfterFacesTiredWhileClosed(fs, counter) ==
  IF fs = <<>> THEN [counter |-> counter, tired |-> FALSE]
  ELSE IF BothEyesClosed(fs[1])
       THEN [counter |-> counter + 1, tired |-> counter + 1 >= EAR_CONSEC_FRAMES]
  ELSE [counter |-> 0, tired |-> counter >= EAR_CONSEC_FRAMES]

\* lines 102-113: the counter and tired_now after the loop over faces
AfterFaces(fs, counter) ==
  IF fs = <<>> THEN [counter |-> counter, tired |-> FALSE]
  ELSE IF BothEyesClosed(fs[1]) THEN [counter |-> counter + 1, tired |-> FALSE]
  ELSE [counter |-> 0, tired |-> counter >= EAR_CONSEC_FRAMES]

\* Classified with the fallback of line 121 set to "sad"
ClassifiedFallbackSad(out) == IF out = ClassifierError THEN "sad" ELSE out

\* lines 117-121
Classified(out) == IF out = ClassifierError THEN "neutral" ELSE out

Min(a, b) == IF a <= b THEN a ELSE b

\* lines 89-91
CamStart(ok) ==
  /\ running /\ cam = "start"
  /\ cam' = IF ok THEN "on" ELSE "off"
  /\ UNCHANGED <<running, apiVars, eye_closed_counter, tired_now, faces, sinceInf,
                 analyzeRaised, emotion_window, lost, keyVars, scrollVars, redVars>>

\* One iteration of the while loop, lines 95-128, on a frame cam.read()
\* delivered (an iteration whose read fails changes nothing).  The append of line 123 is one step: an append that lands on
\* the list object after the reducer built its filtered copy and before it
\* rebinds emotion_window is the interleaving StorePurge below discards, and
\* an append through a reference loaded before the rebinding has that same
\* outcome.
Frame(fs, dt, out, quit) ==
  LET res     == AfterFaces(fs, eye_closed_counter)
      elapsed == Min(sinceInf + dt, EMOTION_SAMPLE_INTERVAL)
      label   == harmonise(Classified(out), res.tired)
  IN
  /\ running /\ cam = "on"
  /\ res.counter <= MaxClosed
  /\ faces' = fs
  /\ eye_closed_counter' = res.counter
  /\ tired_now' = res.tired
  /\ analyzeRaised' = (elapsed >= EMOTION_SAMPLE_INTERVAL /\ out = ClassifierError)
  /\ IF elapsed >= EMOTION_SAMPLE_INTERVAL
     THEN /\ Len(emotion_window) < MaxWindow
          /\ Runs(Append(emotion_window, label)) <= MaxRuns
          /\ emotion_window' = Append(emotion_window, label)
          /\ UNCHANGED lost
          /\ sinceInf' = 0
     ELSE /\ sinceInf' = elapsed
          /\ UNCHANGED <<emotion_window, lost>>
  /\ cam' = IF quit THEN "off" ELSE "on"
  /\ UNCHANGED <<running, apiVars, keyVars, scrollVars, redVars>>

(***************************************************************************)
(* Keyboard listener, lines 133-137.                                       *)
(***************************************************************************)
Put(f, k, v) == [x \in DOMAIN f \cup {k} |-> IF x = k THEN v ELSE f[x]]

Pop(f, k) == [x \in DOMAIN f \ {k} |-> f[x]]

on_press(key) ==
  /\ running
  /\ key_press_times' = Put(key_press_times, key, 0)
  /\ UNCHANGED <<running, apiVars, camVars, emotion_window, lost, typing_metrics,
                 scrollVars, redVars>>

\* on_release with key_press_times.get in place of pop: the record stays
on_releaseKeepsRecord(key) ==
  /\ running
  /\ IF key \in DOMAIN key_press_times
     THEN /\ Len(typing_metrics) < MaxTyping
          /\ typing_metrics' = Append(typing_metrics, key_press_times[key])
     ELSE UNCHANGED typing_metrics
  /\ running' = (key # "Key.esc")
  /\ UNCHANGED <<apiVars, camVars, emotion_window, lost, key_press_times,
                 scrollVars, redVars>>

\* prs is a time.time() value, so "if prs" holds exactly when the key had a
\* recorded press.  Returning False for Esc stops the listener: the main
\* thread's join returns and the process ends.
on_release(key) ==
  /\ running
  /\ key_press_times' = Pop(key_press_times, key)
  /\ IF key \in DOMAIN key_press_times
     THEN /\ Len(typing_metrics) < MaxTyping
          /\ typing_metrics' = Append(typing_metrics, key_press_times[key])
     ELSE UNCHANGED typing_metrics
  /\ running' = (key # "Key.esc")
  /\ UNCHANGED <<apiVars, camVars, emotion_window, lost, scrollVars, redVars>>

\* time passes while keys are held
Tick(dt) ==
  /\ running
  /\ DOMAIN key_press_times # {}
  /\ \A k \in DOMAIN key_press_times : key_press_times[k] + dt <= MaxHold
  /\ key_press_times' = [k \in DOMAIN key_press_times |-> key_press_times[k] + dt]
  /\ UNCHANGED <<running, apiVars, camVars, emotion_window, lost, typing_metrics,
                 scrollVars, redVars>>

(***************************************************************************)
(* Mouse listener, line 138: scroll_events += 1 loads the global, adds one *)
(* and stores the result.                                                  *)
(***************************************************************************)
ScrollLoad ==
  /\ running /\ scrollPc = "idle"
  /\ scroll_events < MaxScroll
  /\ scrollTmp' = scroll_events
  /\ scrollPc' = "loaded"
  /\ UNCHANGED <<running, apiVars, camVars, emotion_window, lost, keyVars,
                 scroll_events, redVars>>

ScrollStore ==
  /\ running /\ scrollPc = "loaded"
  /\ scroll_events' = scrollTmp + 1
  /\ scrollPc' = "idle"
  /\ scrollTmp' = 0
  /\ UNCHANGED <<running, apiVars, camVars, emotion_window, lost, keyVars, redVars>>

(***************************************************************************)
(* analyze_emotions, lines 140-161.  One action per statement that reads   *)
(* or writes a shared global; redPc names the statement executed next.     *)
(***************************************************************************)
\* the keys of Counter(...), in the order a dict keeps them: first occurrence
RECURSIVE FirstSeen(_, _)
FirstSeen(s, seen) ==
  IF s = <<>> THEN <<>>
  ELSE IF Head(s) \in NEGATIVE_EMOTIONS /\ Head(s) \notin seen
       THEN <<Head(s)>> \o FirstSeen(Tail(s), seen \cup {Head(s)})
       ELSE FirstSeen(Tail(s), seen)

\* line 144: the generator runs to the end of the list, so the counts are
\* those of the window as it is when the iteration ends
CounterOf(window) ==
  [l \in NEGATIVE_EMOTIONS |-> Count(l, window)]

\* ShouldAlert with the test of line 146 made strict
ShouldAlertStrict(cnt) == cnt > ALERT_THRESHOLD

\* line 146
ShouldAlert(cnt) == cnt >= ALERT_THRESHOLD

\* line 148, the list comprehension
Purged(window, label) == Without(window, label)

\* line 149: max over a set takes the first maximal element in the set's
\* iteration order, which string hashing decides anew in every run.  max and
\* list.count run without executing bytecode, so the vote is one step.
FaceModes(window) ==
  IF window = <<>> THEN {"engagement/focus"}
  ELSE {l \in Range(window) :
          \A m \in Range(window) : Count(l, window) >= Count(m, window)}

RECURSIVE Sum(_)
Sum(s) == IF s = <<>> THEN 0 ELSE Head(s) + Sum(Tail(s))

\* TypingState with the test avg > 0.5 of line 152 made inclusive
TypingStateInclusive(metrics) ==
  IF metrics = <<>> THEN "inactive"
  ELSE IF Sum(metrics) >= SLOW_HOLD * Len(metrics) THEN "confused/frustrated"
  ELSE IF Sum(metrics) < FAST_HOLD * Len(metrics) THEN "confident"
  ELSE "neutral"

\* lines 150-153: avg > 0.5, avg < 0.15 on the mean of the hold times
TypingState(metrics) ==
  IF metrics = <<>> THEN "inactive"
  ELSE IF Sum(metrics) > SLOW_HOLD * Len(metrics) THEN "confused/frustrated"
  ELSE IF Sum(metrics) < FAST_HOLD * Len(metrics) THEN "confident"
  ELSE "neutral"

\* line 154
ScrollState(n) == IF n > SCROLL_RESTLESS THEN "impatient/restless" ELSE "focused"

\* CrossAdjust with the scroll test of line 155 made inclusive
CrossAdjustInclusive(mode, n) ==
  IF mode = "engagement/focus" /\ n >= SCROLL_BORED THEN "boredom" ELSE mode

\* line 155
CrossAdjust(mode, n) ==
  IF mode = "engagement/focus" /\ n > SCROLL_BORED THEN "boredom" ELSE mode

\* lines 143-144: the sleep ends and the negative labels are counted
CountNegatives ==
  /\ running /\ redPc = "sleep"
  /\ counts' = CounterOf(emotion_window)
  /\ todo' = FirstSeen(emotion_window, {})
  /\ cycleWindow' = emotion_window
  /\ alerts' = <<>>
  /\ popups' = <<>>
  /\ redPc' = "loop"
  /\ UNCHANGED <<running, apiVars, camVars, emotion_window, lost, keyVars, scrollVars,
                 emo, newList, face_mode, typing_state, scroll_state,
                 scrollUsed, typingUsed>>

\* lines 145-148: one iteration of the for loop, up to the evaluation of the
\* right-hand side of line 148
LoopIter ==
  /\ running /\ redPc = "loop" /\ todo # <<>>
  /\ emo' = Head(todo)
  /\ todo' = Tail(todo)
  /\ IF ShouldAlert(counts[Head(todo)])
     THEN /\ alerts' = Append(alerts, Head(todo))
          /\ popups' = Append(popups, "open")
          /\ newList' = Purged(emotion_window, Head(todo))
          /\ redPc' = "store"
     ELSE UNCHANGED <<alerts, popups, newList, redPc>>
  /\ UNCHANGED <<running, apiVars, camVars, emotion_window, lost, keyVars, scrollVars,
                 counts, face_mode, typing_state, scroll_state, cycleWindow,
                 scrollUsed, typingUsed>>

\* StorePurge as it would be if line 147 called show_popup(emo) itself: the
\* reducer goes on only when the popups it opened have returned
StorePurgeAfterPopup ==
  /\ running /\ redPc = "store"
  /\ \A i \in DOMAIN popups : popups[i] # "open"
  /\ emotion_window' = newList
  /\ lost' = lost \cup {l \in AffectLabels \ {emo} :
                            Count(l, newList) < Count(l, emotion_window)}
  /\ newList' = <<>>
  /\ redPc' = "loop"
  /\ UNCHANGED <<running, apiVars, camVars, keyVars, scrollVars, counts, todo,
                 emo, alerts, popups, face_mode, typing_state, scroll_state,
                 cycleWindow, scrollUsed, typingUsed>>

\* line 148: the assignment rebinds the global to the new list
StorePurge ==
  /\ running /\ redPc = "store"
  /\ emotion_window' = newList
  /\ lost' = lost \cup {l \in AffectLabels \ {emo} :
                            Count(l, newList) < Count(l, emotion_window)}
  /\ newList' = <<>>
  /\ redPc' = "loop"
  /\ UNCHANGED <<running, apiVars, camVars, keyVars, scrollVars, counts, todo, emo, alerts, popups,
                 face_mode, typing_state, scroll_state, cycleWindow,
                 scrollUsed, typingUsed>>

\* Vote taken on the window as line 144 counted it, before the purges
VoteOnSnapshot ==
  /\ running /\ redPc = "loop" /\ todo = <<>>
  /\ face_mode' \in FaceModes(cycleWindow)
  /\ redPc' = "typing"
  /\ counts' = NoCounts
  /\ emo' = Unset
  /\ cycleWindow' = <<>>
  /\ UNCHANGED <<running, apiVars, camVars, emotion_window, lost, keyVars,
                 scrollVars, todo, newList, alerts, popups, typing_state,
                 scroll_state, scrollUsed, typingUsed>>

\* line 149, after the loop has ended.  counts and emo are dead from here on
\* and are put back to their initial values, as is the history cycleWindow.
Vote ==
  /\ running /\ redPc = "loop" /\ todo = <<>>
  /\ face_mode' \in FaceModes(emotion_window)
  /\ redPc' = "typing"
  /\ counts' = NoCounts
  /\ emo' = Unset
  /\ cycleWindow' = <<>>
  /\ UNCHANGED <<running, apiVars, camVars, emotion_window, lost, keyVars, scrollVars,
                 todo, newList, alerts, popups, typing_state, scroll_state,
                 scrollUsed, typingUsed>>

\* lines 150-153
TypingStep ==
  /\ running /\ redPc = "typing"
  /\ typing_state' = TypingState(typing_metrics)
  /\ typingUsed' = typing_metrics
  /\ redPc' = "scroll"
  /\ UNCHANGED <<running, apiVars, camVars, emotion_window, lost, keyVars, scrollVars,
                 counts, todo, emo, newList, alerts, popups, face_mode, scroll_state,
                 cycleWindow, scrollUsed>>

\* line 154
ScrollStep ==
  /\ running /\ redPc = "scroll"
  /\ scroll_state' = ScrollState(scroll_events)
  /\ scrollUsed' = scroll_events
  /\ redPc' = "cross"
  /\ UNCHANGED <<running, apiVars, camVars, emotion_window, lost, keyVars, scrollVars,
                 counts, todo, emo, newList, alerts, popups, face_mode, typing_state,
                 cycleWindow, typingUsed>>

\* lines 155-160: the cross-adjustment, then the report is printed
CrossStep ==
  /\ running /\ redPc = "cross"
  /\ face_mode' = CrossAdjust(face_mode, scroll_events)
  /\ redPc' = "clear"
  /\ UNCHANGED <<running, apiVars, camVars, emotion_window, lost, keyVars, scrollVars,
                 counts, todo, emo, newList, alerts, popups, typing_state, scroll_state,
                 cycleWindow, scrollUsed, typingUsed>>

\* line 161, typing_metrics.clear()
ClearTyping ==
  /\ running /\ redPc = "clear"
  /\ typing_metrics' = <<>>
  /\ typingUsed' = <<>>
  /\ redPc' = "reset"
  /\ UNCHANGED <<running, apiVars, camVars, emotion_window, lost, key_press_times,
                 scrollVars, counts, todo, emo, newList, alerts, popups, face_mode,
                 typing_state, scroll_state, cycleWindow, scrollUsed>>

\* line 161, scroll_events = 0; the cycle ends.  The report's locals are dead
\* until the next cycle assigns them again, and are put back to their initial
\* values, as are the histories of the cycle.
ResetScroll ==
  /\ running /\ redPc = "reset"
  /\ scroll_events' = 0
  /\ redPc' = "sleep"
  /\ alerts' = <<>>
  /\ popups' = <<>>
  /\ face_mode' = Unset
  /\ typing_state' = Unset
  /\ scroll_state' = Unset
  /\ scrollUsed' = 0
  /\ lost' = {}
  /\ UNCHANGED <<running, apiVars, camVars, emotion_window, keyVars, scrollPc,
                 scrollTmp, counts, todo, emo, newList, cycleWindow, typingUsed>>

Reducer ==
  \/ CountNegatives
  \/ LoopIter
  \/ StorePurge
  \/ Vote
  \/ TypingStep
  \/ ScrollStep
  \/ CrossStep
  \/ ClearTyping
  \/ ResetScroll

(***************************************************************************)
(* show_popup, lines 74-84, run by the daemon thread started at line 147.  *)
(* The thread beeps (play_sound swallows its exceptions) and opens a       *)
(* message box, in which it stays until the user dismisses the box.  It    *)
(* ends by returning ("closed") or by an exception of tkinter or ctypes    *)
(* ("raised"), which ends that thread only.  The threads of a cycle are    *)
(* followed until the cycle ends; they share no variable with the program. *)
(***************************************************************************)
PopupEnds == {"closed", "raised"}

PopupEnd(i, how) ==
  /\ running
  /\ i \in DOMAIN popups
  /\ popups[i] = "open"
  /\ popups' = [popups EXCEPT ![i] = how]
  /\ UNCHANGED <<running, apiVars, camVars, emotion_window, lost, keyVars,
                 scrollVars, redPc, counts, todo, emo, newList, alerts,
                 face_mode, typing_state, scroll_state, cycleWindow,
                 scrollUsed, typingUsed>>

Popup == \E i \in DOMAIN popups, how \in PopupEnds : PopupEnd(i, how)

(***************************************************************************)
(* api.py, the single-shot endpoint.  Loading the module runs its import   *)
(* of names from student_affect_monitor (line 4) and builds the app and    *)
(* the face mesh (lines 8-23); the server then answers POST /affect.       *)
(***************************************************************************)
\* the names student_affect_monitor.py binds at module level
MonitorNames ==
  {"cv2", "threading", "time", "statistics", "sys", "platform", "os",
   "Counter", "DeepFace", "dlib", "face_utils", "keyboard", "mouse", "dist",
   "tk", "EMOTION_SAMPLE_INTERVAL", "EMOTION_REPORT_INTERVAL",
   "ALERT_THRESHOLD", "EAR_THRESH", "EAR_CONSEC_FRAMES", "emotion_window",
   "typing_metrics", "scroll_events", "eye_closed_counter", "key_press_times",
   "PREDICTOR_PATH", "detector", "predictor", "LEFT_EYE", "RIGHT_EYE",
   "RAW_TO_HIGH", "NEGATIVE_EMOTIONS", "harmonise", "ear", "play_sound",
   "show_popup", "detect_emotion", "on_press", "on_release", "on_scroll",
   "analyze_emotions"}

\* api.py line 4: from student_affect_monitor import ...
ApiImports == {"EAR_THRESH", "harmonise", "mp_face_mesh", "LEFT_EYE", "RIGHT_EYE"}

\* content types of an upload; decodes tells whether cv2.imdecode yields an
\* image for its bytes
ContentTypes == {"image/jpeg", "image/png", "text/plain"}

\* at most this many requests are posted
MaxRequests == 3

\* the client gets no HTTP response: no server is listening
NoResponse == 0

\* api.py lines 33-38 and 60: the status of the response
AffectStatus(content_type, decodes) ==
  IF content_type \notin {"image/jpeg", "image/png"} THEN 415
  ELSE IF ~decodes THEN 400
  ELSE 200

\* api.py lines 42 and 53: the services the handler calls
AffectCalls(content_type, decodes) ==
  IF AffectStatus(content_type, decodes) = 200 THEN {"face_mesh", "DeepFace"}
  ELSE {}

\* api.py lines 1-23: a from-import of a name the module does not bind raises
\* ImportError, and the module, with its app, is not created
ApiLoad ==
  /\ api = "start"
  /\ api' = IF ApiImports \subseteq MonitorNames THEN "up" ELSE "failed"
  /\ UNCHANGED <<running, apiLog, camVars, emotion_window, lost, keyVars,
                 scrollVars, redVars>>

\* a client posts an upload to /affect, lines 31-60
PostAffect(content_type, decodes) ==
  /\ api # "start"
  /\ Len(apiLog) < MaxRequests
  /\ apiLog' =
       Append(apiLog,
              [content_type |-> content_type,
               decodes      |-> decodes,
               status       |-> IF api = "up"
                                THEN AffectStatus(content_type, decodes)
                                ELSE NoResponse,
               calls        |-> IF api = "up"
                                THEN AffectCalls(content_type, decodes)
                                ELSE {}])
  /\ UNCHANGED <<running, api, camVars, emotion_window, lost, keyVars,
                 scrollVars, redVars>>

Api ==
  \/ ApiLoad
  \/ \E content_type \in ContentTypes, decodes \in BOOLEAN :
       PostAffect(content_type, decodes)

(***************************************************************************)
(* Specifications.  Spec is the whole program.  The others are the program *)
(* in an environment where some event sources stay silent.                 *)
(***************************************************************************)
Camera(faceSet, outcomes, quits) ==
  \/ \E ok \in BOOLEAN : CamStart(ok)
  \/ \E fs \in faceSet, dt \in TimeSteps, out \in outcomes, quit \in quits :
       Frame(fs, dt, out, quit)

Keyboard(keys) ==
  \/ \E key \in keys : on_press(key)
  \/ \E key \in keys : on_release(key)
  \/ \E dt \in HoldSteps : Tick(dt)

Mouse == ScrollLoad \/ ScrollStore

Next ==
  \/ Camera(FaceInputs, ClassifierOutcomes, BOOLEAN)
  \/ Keyboard(Keys)
  \/ Mouse
  \/ Reducer
  \/ Popup
  \/ Api

Spec == Init /\ [][Next]_vars

\* the webcam thread alone: every face input, a failing or neutral classifier
NextCam == Camera(FaceInputs, {"neutral", ClassifierError}, BOOLEAN)

SpecCam == Init /\ [][NextCam]_vars

\* webcam thread and reducer: no face is detected, no key or scroll event
NextAlert == Camera({<<>>}, {"surprise", "sad", "happy"}, {FALSE}) \/ Reducer

SpecAlert == Init /\ [][NextAlert]_vars

\* webcam thread, mouse listener and reducer
NextScroll == Camera({<<>>}, {"sad"}, {FALSE}) \/ Mouse \/ Reducer

SpecScroll == Init /\ [][NextScroll]_vars

\* webcam thread, keyboard listener and reducer: one key is typed, never Esc
NextKeys == Camera({<<>>}, {"sad"}, {FALSE}) \/ Keyboard({"a"}) \/ Reducer

SpecKeys == Init /\ [][NextKeys]_vars

\* the webcam thread alone: one face, eyes closed or open, and a classifier
\* that answers with every raw label
NextHarmonise == Camera({<<ClosedFace>>, <<OpenFace>>}, RawInputs, {FALSE})

SpecHarmonise == Init /\ [][NextHarmonise]_vars

\* webcam thread, reducer and popup threads.  The reducer thread is always
\* scheduled again: time.sleep returns and every statement of the loop
\* terminates.  Nothing is assumed of the popup threads, which stay open
\* until the user acts, nor of the webcam.
NextPopup == Camera({<<>>}, {"sad"}, {FALSE}) \/ Reducer \/ Popup

SpecPopup == Init /\ [][NextPopup]_vars /\ WF_vars(Reducer)

\* the endpoint's process alone
NextApi == Api

SpecApi == Init /\ [][NextApi]_vars

\* the keyboard listener alone: a key and Esc
NextTyping == Keyboard(Keys)

SpecTyping == Init /\ [][NextTyping]_vars

\* webcam thread, mouse listener and reducer, with a classifier that
\* answers sad or happy; samples and scroll events arrive only while the
\* reducer sleeps, so that nothing is appended during a cycle
NextVote ==
  \/ redPc = "sleep" /\ Camera({<<>>}, {"sad", "happy"}, {FALSE})
  \/ redPc = "sleep" /\ Mouse
  \/ Reducer

SpecVote == Init /\ [][NextVote]_vars

(***************************************************************************)
(* Properties.                                                             *)
(***************************************************************************)
\* a step of the webcam thread that processed a frame: Frame leaves the
\* frame's faces in faces and is at "off" exactly when q was pressed
FrameTaken ==
  \E dt \in TimeSteps, out \in ClassifierOutcomes :
     Frame(faces', dt, out, cam' = "off")

\* a step of the webcam thread that processed a frame without a face
NoFaceFrameTaken ==
  \E dt \in TimeSteps, out \in ClassifierOutcomes :
     Frame(<<>>, dt, out, cam' = "off")

\* C1: on every frame with a face, if both EARs of the first face are below
\* EAR_THRESH the counter grows by one and tired_now is false; otherwise
\* tired_now is true exactly when the counter was at least EAR_CONSEC_FRAMES
\* before the frame, and the counter is 0 after it.
C1_Debouncer ==
  [][(FrameTaken /\ faces' # <<>>) =>
       IF faces'[1].l < EAR_THRESH /\ faces'[1].r < EAR_THRESH
       THEN /\ eye_closed_counter' = eye_closed_counter + 1
            /\ tired_now' = FALSE
       ELSE /\ tired_now' = (eye_closed_counter >= EAR_CONSEC_FRAMES)
            /\ eye_closed_counter' = 0]_vars

\* C1 witness: tired was emitted on a frame whose first face has open eyes
C1_TiredEmitted ==
  /\ tired_now
  /\ faces # <<>>
  /\ eye_closed_counter = 0

\* C2: the popups started in a cycle are distinct, never for
\* engagement/focus, only for negative labels that line 144 counted at least
\* ALERT_THRESHOLD times, and, once the loop has ended, for every such label.
C2_AlertsIffThreshold ==
  LET reached == {l \in {"tired", "tension/frustration", "confusion", "boredom"} :
                    Count(l, cycleWindow) >= ALERT_THRESHOLD}
  IN
  /\ \A i, j \in DOMAIN alerts : i # j => alerts[i] # alerts[j]
  /\ "engagement/focus" \notin Range(alerts)
  /\ redPc \in {"loop", "store"} => Range(alerts) \subseteq reached
  /\ (redPc = "loop" /\ todo = <<>>) => Range(alerts) = reached

\* C2 witness: the loop has ended and two labels alerted in the same cycle
C2_TwoAlerts ==
  /\ redPc = "loop"
  /\ todo = <<>>
  /\ Len(alerts) = 2

\* C3: the rebinding of line 148 removes from the window the entries of the
\* alerted label and no other entry, keeping the order of the rest.
C3_PurgeOnlyAlerted ==
  [][(redPc = "store" /\ redPc' = "loop") =>
       emotion_window' = SelectSeq(emotion_window, LAMBDA e : e # emo)]_vars

\* the window as line 144 counted it, without the labels that alerted
RECURSIVE WithoutAll(_, _)
WithoutAll(s, labels) ==
  IF s = <<>> THEN <<>>
  ELSE IF Head(s) \in labels THEN WithoutAll(Tail(s), labels)
  ELSE <<Head(s)>> \o WithoutAll(Tail(s), labels)

\* C4: in a cycle during which nothing was appended, the facial state
\* computed at line 149 is a most frequent label of the window as line 144
\* counted it, before any purge (engagement/focus when that window is empty).
C4_ModeOfSnapshot ==
  [][(/\ redPc = "loop"
      /\ redPc' = "typing"
      /\ emotion_window = WithoutAll(cycleWindow, Range(alerts))) =>
       IF cycleWindow = <<>> THEN face_mode' = "engagement/focus"
       ELSE /\ face_mode' \in Range(cycleWindow)
            /\ \A m \in Range(cycleWindow) :
                 Count(face_mode', cycleWindow) >= Count(m, cycleWindow)]_vars

\* C5: line 155 replaces the computed facial state by boredom exactly when
\* it is engagement/focus and scroll_events, as the line reads it, is above
\* 15; the step changes neither the window nor the popups started.
C5_CrossAdjust ==
  [][(redPc = "cross" /\ redPc' = "clear") =>
       /\ face_mode' = IF face_mode = "engagement/focus" /\ scroll_events > 15
                       THEN "boredom" ELSE face_mode
       /\ emotion_window' = emotion_window
       /\ alerts' = alerts]_vars

\* C5 witness: boredom is reported for an empty window and more than 15
\* scroll events
C5_Overridden ==
  /\ redPc = "clear"
  /\ face_mode = "boredom"
  /\ emotion_window = <<>>
  /\ alerts = <<>>
  /\ scroll_events > 15

\* C6: no entry appended by the webcam thread is discarded by a purge made
\* for another label.
C6_NoAppendLost == lost = {}

\* C7: every scroll event is counted in exactly one cycle: the reset of line
\* 161 overwrites the very count the cycle read at line 154, and an on_scroll
\* increment adds one to the counter as it is when the increment is stored.
C7_ScrollCounted ==
  [][/\ (redPc = "reset" /\ redPc' = "sleep") => scroll_events = scrollUsed
     /\ (scrollPc = "loaded" /\ scrollPc' = "idle") =>
          scroll_events' = scroll_events + 1]_vars

\* C8: every hold duration is in the mean of exactly one cycle: the clear of
\* line 161 removes the very entries the cycle read at lines 150-151.
C8_TypingCounted ==
  [][(redPc = "clear" /\ redPc' = "reset") => typing_metrics = typingUsed]_vars

\* C9: while a negative label that line 144 counted below ALERT_THRESHOLD has
\* not alerted, no step lowers its number of entries in the window, so that
\* the entries appended over several cycles add up.
C9_BelowThresholdKept ==
  [][\A l \in NEGATIVE_EMOTIONS :
       (redPc \in {"loop", "store"} /\ counts[l] < ALERT_THRESHOLD) =>
          Count(l, emotion_window') >= Count(l, emotion_window)]_vars

\* C10: a frame without a face leaves tired_now false and the counter as it
\* was.
C10_NoFaceKeepsCounter ==
  [][NoFaceFrameTaken =>
       /\ tired_now' = FALSE
       /\ eye_closed_counter' = eye_closed_counter]_vars

\* C10 witness: a frame without a face was processed with the counter at
\* EAR_CONSEC_FRAMES, and the counter is still there
C10_CounterHeld ==
  /\ faces = <<>>
  /\ ~tired_now
  /\ eye_closed_counter = EAR_CONSEC_FRAMES

\* C11: on every sampling frame the appended label is "tired" when the
\* frame's tired flag is set, whatever the classifier's raw label; otherwise
\* it is tension/frustration for angry and fear, confusion for disgust and
\* surprise, boredom for sad, and engagement/focus for happy, neutral and
\* every raw label outside the table.  It is always one of the five labels.
C11_Harmonised ==
  [][\A dt \in TimeSteps, out \in RawInputs :
       (/\ sinceInf + dt >= EMOTION_SAMPLE_INTERVAL
        /\ emotion_window' # emotion_window
        /\ Frame(faces', dt, out, cam' = "off")) =>
          LET expected ==
                IF tired_now' THEN "tired"
                ELSE IF out \in {"angry", "fear"} THEN "tension/frustration"
                ELSE IF out \in {"disgust", "surprise"} THEN "confusion"
                ELSE IF out = "sad" THEN "boredom"
                ELSE "engagement/focus"
          IN /\ emotion_window' = Append(emotion_window, expected)
             /\ expected \in {"tired", "tension/frustration", "confusion",
                               "boredom", "engagement/focus"}]_vars

\* C11 witness: a sample classified as angry or fear with the tired flag
\* clear, then a sample taken with the flag set
C11_TensionThenTired ==
  emotion_window = <<"tension/frustration", "tired">>

\* C12: the typing state computed at lines 150-153 is inactive exactly when
\* typing_metrics is empty; otherwise, with avg the mean of its entries, it
\* is confused/frustrated when avg > 0.5, confident when avg < 0.15 and
\* neutral when 0.15 <= avg <= 0.5.
C12_TypingState ==
  [][(redPc = "typing" /\ redPc' = "scroll") =>
       LET total == Sum(typing_metrics)
           n     == Len(typing_metrics)
       IN /\ (typing_state' = "inactive") <=> (n = 0)
          /\ (n > 0 /\ total > 50 * n) => typing_state' = "confused/frustrated"
          /\ (n > 0 /\ total < 15 * n) => typing_state' = "confident"
          /\ (n > 0 /\ 15 * n <= total /\ total <= 50 * n) =>
                typing_state' = "neutral"]_vars

\* C12 witness: neutral is reported for a mean hold time on a boundary, 0.5 s
\* for one entry or 0.15 s for two
C12_BoundaryNeutral ==
  /\ redPc = "scroll"
  /\ typing_state = "neutral"
  /\ typingUsed \in {<<50>>, <<10, 20>>}

\* C13: the step that completes a reducer cycle leaves typing_metrics empty
\* and scroll_events at 0, so that a next cycle without a key or scroll
\* event before it reads an empty list and a zero counter.
C13_CycleLeavesCleared ==
  [][(redPc = "reset" /\ redPc' = "sleep") =>
       /\ typing_metrics' = <<>>
       /\ scroll_events' = 0]_vars

\* C14: emotion_window is bounded: however many samples were appended, in
\* a cycle during which nothing is appended the loop of lines 145-148, the
\* only code that removes entries, leaves the window shorter than MaxWindow,
\* the length at which the model stops the webcam thread.
C14_WindowTrimmed ==
  [][(/\ redPc = "loop"
      /\ redPc' = "typing"
      /\ emotion_window = WithoutAll(cycleWindow, Range(alerts))) =>
       Len(emotion_window) < MaxWindow]_vars

\* a step of the webcam thread on a sampling frame on which DeepFace.analyze
\* raised; quit tells whether q was pressed on that frame
FailedSample(quit) ==
  /\ analyzeRaised'
  /\ emotion_window' # emotion_window
  /\ \E dt \in TimeSteps : Frame(faces', dt, ClassifierError, quit)

\* C15: a sampling frame on which the classifier raises appends exactly one
\* label, engagement/focus, and the thread stays in its loop unless q is
\* pressed.
C15_FailureAppendsFocus ==
  [][\A quit \in BOOLEAN :
       FailedSample(quit) =>
         /\ emotion_window' = Append(emotion_window, "engagement/focus")
         /\ cam' = IF quit THEN "off" ELSE "on"]_vars

\* C15, amended: a sampling frame on which the classifier raises appends
\* exactly one label, which is tired when the frame's tired flag is set and
\* engagement/focus otherwise, and the thread stays in its loop unless q is
\* pressed.
C15_FailureAppendsNeutralOrTired ==
  [][\A quit \in BOOLEAN :
       FailedSample(quit) =>
         /\ emotion_window' =
              Append(emotion_window,
                     IF tired_now' THEN "tired" ELSE "engagement/focus")
         /\ cam' = IF quit THEN "off" ELSE "on"]_vars

\* C15 witness: the classifier raised on a sampling frame whose tired flag is
\* set, tired was appended and the thread is still in its loop
C15_FailedOnTiredFrame ==
  /\ analyzeRaised
  /\ tired_now
  /\ cam = "on"
  /\ emotion_window # <<>>
  /\ emotion_window[Len(emotion_window)] = "tired"

\* C16: whenever popups were started in a cycle, the reducer goes on to
\* print the report, then completes the cycle with typing_metrics and
\* scroll_events reset, and then starts the next cycle, whether or not the
\* popup threads have ended.
C16_AlertsDoNotBlock ==
  /\ (alerts # <<>>) ~> (redPc = "clear")
  /\ (alerts # <<>>) ~>
       (redPc = "sleep" /\ typing_metrics = <<>> /\ scroll_events = 0)
  /\ (redPc = "sleep") ~> (redPc = "loop")

\* C16 witness: the report was printed and typing_metrics cleared while a
\* popup of the cycle is still open
C16_ReportedWhileOpen ==
  /\ redPc = "reset"
  /\ alerts # <<>>
  /\ \E i \in DOMAIN popups : popups[i] = "open"

\* C17: every upload whose content type is neither image/jpeg nor image/png
\* is answered with status 415, every upload of such a type whose bytes do
\* not decode with status 400, and in both cases neither the face mesh nor
\* the classifier is called.
C17_RejectsBadUploads ==
  \A i \in DOMAIN apiLog :
    LET r == apiLog[i] IN
    /\ r.content_type \notin {"image/jpeg", "image/png"} =>
         (r.status = 415 /\ r.calls = {})
    /\ (r.content_type \in {"image/jpeg", "image/png"} /\ ~r.decodes) =>
         (r.status = 400 /\ r.calls = {})

\* the press records of the keys other than key are as they were
OthersKept(key) ==
  \A other \in Keys \ {key} :
    /\ (other \in DOMAIN key_press_times') <=> (other \in DOMAIN key_press_times)
    /\ other \in DOMAIN key_press_times =>
         key_press_times'[other] = key_press_times[other]

\* C18: on_release appends one hold time, measured from the recorded press,
\* exactly when a press of that key is recorded, and leaves no record of the
\* key; on_press appends nothing and records the press anew, so that after
\* repeated presses the hold time runs from the latest one; neither touches
\* the record of another key.
C18_OneEntryPerPair ==
  [][\A key \in Keys :
       /\ on_release(key) =>
            /\ typing_metrics' =
                 IF key \in DOMAIN key_press_times
                 THEN Append(typing_metrics, key_press_times[key])
                 ELSE typing_metrics
            /\ key \notin DOMAIN key_press_times'
            /\ OthersKept(key)
       /\ on_press(key) =>
            /\ typing_metrics' = typing_metrics
            /\ key \in DOMAIN key_press_times'
            /\ key_press_times'[key] = 0
            /\ OthersKept(key)]_vars

\* C18 witness: a was pressed and released, held for 0.1 s, while Esc was
\* held down all along
C18_ReleasedWhileOtherHeld ==
  /\ typing_metrics = <<10>>
  /\ DOMAIN key_press_times = {"Key.esc"}
  /\ key_press_times["Key.esc"] = 60

\* C19: a frame appends tired exactly when it is both a sampling frame (at
\* least EMOTION_SAMPLE_INTERVAL since the last sample) and the reopening
\* frame after at least 15 counted closed frames; any other sampling frame
\* appends one label that is not tired; a frame that is not a sampling frame
\* leaves the window unchanged; and tired_now after a frame is that frame's
\* own emission, whatever it was before.
C19_TiredOnlyOnSample ==
  [][\A dt \in TimeSteps :
       (\E out \in ClassifierOutcomes : Frame(faces', dt, out, cam' = "off")) =>
         LET sampling  == sinceInf + dt >= 1
             reopening == /\ faces' # <<>>
                          /\ ~(faces'[1].l < 23 /\ faces'[1].r < 23)
                          /\ eye_closed_counter >= 15
         IN /\ (sampling /\ reopening) =>
                 emotion_window' = Append(emotion_window, "tired")
            /\ (sampling /\ ~reopening) =>
                 /\ Len(emotion_window') = Len(emotion_window) + 1
                 /\ SubSeq(emotion_window', 1, Len(emotion_window)) = emotion_window
                 /\ emotion_window'[Len(emotion_window')] # "tired"
            /\ ~sampling => emotion_window' = emotion_window
            /\ tired_now' = reopening]_vars

\* C19 witness: the last frame emitted tired, samples were taken before it,
\* and no tired entry is in the window
C19_TiredNotSampled ==
  /\ tired_now
  /\ emotion_window # <<>>
  /\ \A i \in DOMAIN emotion_window : emotion_window[i] # "tired"

\* C20: in a cycle during which nothing was appended, the facial state
\* computed at line 149 is no label that alerted in the cycle: it is a most
\* frequent label of the entries left after the purges, engagement/focus
\* when none is left; and line 155 turns the facial state into a label that
\* alerted only by turning engagement/focus into boredom on more than 15
\* scroll events.
C20_AlertedNeverMode ==
  [][/\ (/\ redPc = "loop"
         /\ redPc' = "typing"
         /\ emotion_window = WithoutAll(cycleWindow, Range(alerts))) =>
          LET rest == WithoutAll(cycleWindow, Range(alerts))
          IN /\ face_mode' \notin Range(alerts)
             /\ IF rest = <<>> THEN face_mode' = "engagement/focus"
                ELSE /\ face_mode' \in Range(rest)
                     /\ \A m \in Range(rest) :
                          Count(face_mode', rest) >= Count(m, rest)
     /\ (/\ redPc = "cross"
         /\ redPc' = "clear"
         /\ face_mode \notin Range(alerts)
         /\ face_mode' \in Range(alerts)) =>
          /\ face_mode = "engagement/focus"
          /\ face_mode' = "boredom"
          /\ scroll_events > 15]_vars

\* C20 witness: boredom alerted and was purged, entries of another label
\* are left, and the report says boredom on more than 15 scroll events
C20_BoredomByScrollOnly ==
  /\ redPc = "clear"
  /\ alerts = <<"boredom">>
  /\ face_mode = "boredom"
  /\ scroll_events > 15
  /\ emotion_window # <<>>
  /\ \A i \in DOMAIN emotion_window : emotion_window[i] = "engagement/focus"

=============================================================================
